---- MODULE Spec2Model ----
(***************************************************************************)
(* A model of the Bybit v5 client layer: the Order Manager                 *)
(* (order_manager.py), the Portfolio Manager (portfolio.py), the           *)
(* Order-Book Stream (orderbook_stream.py) and the domain enumerations     *)
(* (trading_types.py).                                                     *)
(*                                                                         *)
(* Conventions.  A Python dict is a function whose DOMAIN is the set of    *)
(* keys present; Get is dict.get.  Optional[T] is a tuple: <<>> is None    *)
(* and <<v>> is a present v.  A string the code hands to Decimal(...) is a *)
(* tuple of one-character strings, so that the parse can be modelled       *)
(* character by character; every other string is a TLA+ string.  The       *)
(* outcome of a call is [exc |-> <<>>, val |-> v] when it returns v and    *)
(* [exc |-> <<name>>, val |-> <<>>] when it raises the exception name.     *)
(***************************************************************************)
EXTENDS Integers, Sequences, FiniteSets, TLC

VARIABLES
    \* the two REST managers
    call,       \* the REST operation invoked last, with its arguments
    exchange,   \* what the exchange answers to the request of that call
    wire,       \* what _make_request did: signed string, headers, sent or not
    outcome,    \* what the operation handed back to its caller
    \* the Order-Book Stream instances, one entry per instance
    websocket,  \* self.websocket: None or the connection handle
    orderbook,  \* self.orderbook: None or the latest snapshot
    callback,   \* self.callback: None or the registered observer
    best,       \* self.best_bid_price, best_bid_size, best_ask_price, best_ask_size
    conn,       \* the connection behind the handle: "absent", "open", "closed"
    inbox,      \* frames that arrived on the connection and are not read yet
    arrived,    \* how many frames arrived on the instance so far
    listenPc,   \* where the listen coroutine of the instance stands
    listenCalls,\* how many times listen was called on the instance
    discPc,     \* where the disconnect coroutine of the instance stands
    events,     \* what the instance did, in order: reads, snapshots, callbacks
    mainPc      \* where main() of orderbook_stream.py stands

restVars == <<call, exchange, wire, outcome>>

streamVars == <<websocket, orderbook, callback, best, conn, inbox, arrived,
                listenPc, listenCalls, discPc, events, mainPc>>

vars == <<restVars, streamVars>>

-----------------------------------------------------------------------------
(* Python values shared by all components                                  *)

None == <<>>

Some(v) == <<v>>

EmptyDict == <<>>

Get(d, k, default) == IF k \in DOMAIN d THEN d[k] ELSE default

Has(d, k) == k \in DOMAIN d

Returned(v) == [exc |-> None, val |-> v]

Raised(e) == [exc |-> Some(e), val |-> None]

IsRaise(r) == r.exc # None

-----------------------------------------------------------------------------
(* decimal.Decimal: construction from a string, comparison, str()          *)

DigitChars == <<"0", "1", "2", "3", "4", "5", "6", "7", "8", "9">>

IsDigit(c) == \E i \in DOMAIN DigitChars : DigitChars[i] = c

DigitVal(c) == (CHOOSE i \in DOMAIN DigitChars : DigitChars[i] = c) - 1

RECURSIVE DigitsVal(_)
DigitsVal(ds) ==
    IF ds = <<>> THEN 0
    ELSE 10 * DigitsVal(SubSeq(ds, 1, Len(ds) - 1)) + DigitVal(ds[Len(ds)])

RECURSIVE Pow10(_)
Pow10(n) == IF n = 0 THEN 1 ELSE 10 * Pow10(n - 1)

\* Decimal(s) for s over the alphabet digits, ".", "+", "-" and letters: an
\* optional sign, then digits with at most one point and at least one digit.
\* Anything else raises decimal.InvalidOperation.  The value keeps the sign,
\* the coefficient and the exponent, as Decimal does.
Decimal(s) ==
    LET signed == s # <<>> /\ s[1] \in {"-", "+"}
        body   == IF signed THEN Tail(s) ELSE s
        dots   == {i \in DOMAIN body : body[i] = "."}
        digits == SelectSeq(body, IsDigit)
        valid  == /\ Cardinality(dots) <= 1
                  /\ Len(digits) >= 1
                  /\ Len(digits) + Cardinality(dots) = Len(body)
    IN  IF valid
        THEN Returned([neg  |-> signed /\ s[1] = "-",
                       coef |-> DigitsVal(digits),
                       exp  |-> IF dots = {} THEN 0
                                ELSE (CHOOSE i \in dots : TRUE) - Len(body)])
        ELSE Raised("InvalidOperation")

DecimalZero == [neg |-> FALSE, coef |-> 0, exp |-> 0]

\* Decimal.__eq__: numerical equality, whatever the exponents (0.0 == 0).
DecEq(a, b) ==
    LET sa == IF a.neg THEN 0 - a.coef ELSE a.coef
        sb == IF b.neg THEN 0 - b.coef ELSE b.coef
    IN  sa * Pow10(0 - b.exp) = sb * Pow10(0 - a.exp)

RECURSIVE IntDigits(_)
IntDigits(n) ==
    IF n < 10 THEN <<DigitChars[n + 1]>>
    ELSE Append(IntDigits(n \div 10), DigitChars[(n % 10) + 1])

RECURSIVE Join(_)
Join(cs) == IF cs = <<>> THEN "" ELSE cs[1] \o Join(Tail(cs))

RECURSIVE Zeros(_)
Zeros(n) == IF n = 0 THEN <<>> ELSE <<"0">> \o Zeros(n - 1)

\* str(Decimal) in plain notation (exponent <= 0, as every value here has).
DecimalStr(d) ==
    LET cs   == IntDigits(d.coef)
        frac == 0 - d.exp
        body == IF frac = 0 THEN cs
                ELSE IF Len(cs) > frac
                     THEN SubSeq(cs, 1, Len(cs) - frac) \o <<".">>
                          \o SubSeq(cs, Len(cs) - frac + 1, Len(cs))
                     ELSE <<"0", ".">> \o Zeros(frac - Len(cs)) \o cs
    IN  Join((IF d.neg THEN <<"-">> ELSE <<>>) \o body)

-----------------------------------------------------------------------------
(* trading_types.py: the closed enumerations.  Enum(value) looks the member *)
(* up by value and raises ValueError when no member has it.                *)

OrderSideMembers == [Buy |-> "BUY", Sell |-> "SELL"]

OrderTypeMembers == [Market |-> "MARKET", Limit |-> "LIMIT"]

OrderStatusMembers ==
    [New |-> "NEW", PartiallyFilled |-> "PARTIALLY_FILLED", Filled |-> "FILLED",
     Cancelled |-> "CANCELLED", Rejected |-> "REJECTED"]

PositionSideMembers == [Buy |-> "LONG", Sell |-> "SHORT", None |-> "NONE"]

EnumOf(members, value) ==
    IF value \in DOMAIN members THEN Returned(members[value])
    ELSE Raised("ValueError")

\* member.value
EnumValue(members, member) == CHOOSE v \in DOMAIN members : members[v] = member

OrderSide(value) == EnumOf(OrderSideMembers, value)

OrderType(value) == EnumOf(OrderTypeMembers, value)

OrderStatus(value) == EnumOf(OrderStatusMembers, value)

PositionSide(value) == EnumOf(PositionSideMembers, value)

-----------------------------------------------------------------------------
(* Typed Python values, request parameters and their serializations        *)

StrV(v) == [t |-> "str", v |-> v]

IntV(v) == [t |-> "int", v |-> v]

BoolV(v) == [t |-> "bool", v |-> v]

\* a + b as the code uses it: str + str concatenates, str + int raises.
PyAdd(a, b) ==
    IF IsRaise(a) THEN a
    ELSE IF a.val.t = "str" /\ b.t = "str" THEN Returned(StrV(a.val.v \o b.v))
    ELSE IF a.val.t = "int" /\ b.t = "int" THEN Returned(IntV(a.val.v + b.v))
    ELSE Raised("TypeError")

\* str(x) and the f-string form {x}
PyStr(x) ==
    CASE x.t = "str"  -> x.v
      [] x.t = "int"  -> Join(IntDigits(x.v))
      [] x.t = "bool" -> IF x.v THEN "True" ELSE "False"

\* json.dumps of a scalar
JsonScalar(x) ==
    CASE x.t = "str"  -> "\"" \o x.v \o "\""
      [] x.t = "int"  -> Join(IntDigits(x.v))
      [] x.t = "bool" -> IF x.v THEN "true" ELSE "false"

\* A parameter dict is the sequence of its <<key, value>> items in insertion
\* order.  sep.join(items rendered by item(_))
RECURSIVE JoinWith(_, _)
JoinWith(strs, sep) ==
    IF strs = <<>> THEN ""
    ELSE IF Len(strs) = 1 THEN strs[1]
    ELSE strs[1] \o sep \o JoinWith(Tail(strs), sep)

\* json.dumps(params) with the default separators
JsonDumps(params) ==
    "{" \o JoinWith([i \in DOMAIN params |->
                        "\"" \o params[i][1] \o "\": " \o JsonScalar(params[i][2])],
                    ", ") \o "}"

\* "&".join([f"{k}={v}" for k, v in params.items()])
QueryString(params) ==
    JoinWith([i \in DOMAIN params |-> params[i][1] \o "=" \o PyStr(params[i][2])],
             "&")

\* hmac.new(secret, msg, sha256).hexdigest(): a function of key and message
\* that is not the message
HmacSha256Hex(secret, msg) == <<"hmac-sha256", secret, msg>>

RecvWindow == 5000

TestnetUrl == "https://api-testnet.bybit.com"

\* __init__ of both managers (testnet = True); recv_window is the int 5000
NewManager ==
    [api_key |-> "KEY", api_secret |-> "SECRET", testnet |-> TRUE,
     base_url |-> TestnetUrl, recv_window |-> IntV(RecvWindow)]

NoWire == [signed |-> None, headers |-> None, sent |-> None]

\* session.get / session.post followed by raise_for_status and json():
\* the exchange either fails the transport (RequestException, logged and
\* re-raised) or answers with a JSON body
Transport(exch) ==
    IF exch.kind = "fail" THEN Raised("RequestException")
    ELSE Returned(exch.body)

Headers(self, timestamp, signature) ==
    [X_BAPI_API_KEY |-> self.api_key, X_BAPI_SIGN |-> signature,
     X_BAPI_SIGN_TYPE |-> "2", X_BAPI_TIMESTAMP |-> timestamp,
     X_BAPI_RECV_WINDOW |-> PyStr(self.recv_window),
     Content_Type |-> "application/json"]

\* The rest of _make_request once params_str is fixed: headers (a raise here
\* is outside the try and propagates), then the request by method.
SendRequest(self, sig, method, endpoint, params, params_str, clock, exch) ==
    IF IsRaise(sig)
    THEN [res |-> sig,
          wire |-> [signed |-> Some(params_str), headers |-> None, sent |-> None]]
    ELSE LET headers == Headers(self, clock, sig.val)
             w == [signed |-> Some(params_str), headers |-> Some(headers),
                   sent |-> Some([method |-> method,
                                  url |-> self.base_url \o endpoint,
                                  params |-> params])]
         IN  IF method \in {"GET", "POST"}
             THEN [res |-> Transport(exch), wire |-> w]
             ELSE [res |-> Raised("ValueError"),
                   wire |-> [w EXCEPT !.sent = None]]

-----------------------------------------------------------------------------
(* order_manager.py                                                        *)

\* timestamp + self.api_key + self.recv_window + params, then the digest
OM_generate_signature(self, timestamp, params) ==
    LET param_str == PyAdd(PyAdd(PyAdd(Returned(StrV(timestamp)),
                                       StrV(self.api_key)),
                                 self.recv_window),
                           StrV(params))
    IN  IF IsRaise(param_str) THEN param_str
        ELSE Returned(HmacSha256Hex(self.api_secret, param_str.val.v))

\* params_str = json.dumps(params) if params else ""
OM_params_str(method, params) ==
    IF params # <<>> THEN JsonDumps(params) ELSE ""

OM_make_request(self, method, endpoint, params, clock, exch) ==
    LET params_str == OM_params_str(method, params)
    IN  SendRequest(self, OM_generate_signature(self, clock, params_str),
                    method, endpoint, params, params_str, clock, exch)

RetCodeOk(body) == Has(body, "retCode") /\ body.retCode = 0

\* int(s) for a string of digits; anything else raises ValueError
PyInt(s) ==
    IF s # <<>> /\ \A i \in DOMAIN s : IsDigit(s[i])
    THEN Returned(DigitsVal(s)) ELSE Raised("ValueError")

\* datetime.fromtimestamp(int(s) / 1000)
FromMillis(s) ==
    LET n == PyInt(s)
    IN  IF IsRaise(n) THEN n
        ELSE Returned([seconds |-> n.val \div 1000, millis |-> n.val % 1000])

\* OptDecimal testing the parsed number, not the string: zero reads as absent
OptDecimal_ZeroAbsent(d, k) ==
    IF Has(d, k) /\ d[k] # <<>>
    THEN LET x == Decimal(d[k])
         IN  IF IsRaise(x) THEN x
             ELSE IF x.val.coef = 0 THEN Returned(None)
             ELSE Returned(Some(x.val))
    ELSE Returned(None)

\* Decimal(d.get(k, "0")) if d.get(k) else None
OptDecimal(d, k) ==
    IF Has(d, k) /\ d[k] # <<>>
    THEN LET x == Decimal(d[k]) IN IF IsRaise(x) THEN x ELSE Returned(Some(x.val))
    ELSE Returned(None)

\* The first exception raised while the keyword arguments are evaluated in
\* order, or None.
RECURSIVE FirstRaise(_)
FirstRaise(rs) ==
    IF rs = <<>> THEN None
    ELSE IF IsRaise(rs[1]) THEN rs[1].exc
    ELSE FirstRaise(Tail(rs))

ParseOrderFields(order_data) ==
    <<Returned(Get(order_data, "orderId", "")),
      Returned(Get(order_data, "symbol", "")),
      OrderSide(Get(order_data, "side", "")),
      OrderType(Get(order_data, "orderType", "")),
      Decimal(Get(order_data, "qty", <<"0">>)),
      OptDecimal(order_data, "price"),
      OrderStatus(Get(order_data, "orderStatus", "")),
      Decimal(Get(order_data, "cumExecQty", <<"0">>)),
      OptDecimal(order_data, "avgPrice"),
      FromMillis(Get(order_data, "createdTime", <<"0">>)),
      FromMillis(Get(order_data, "updatedTime", <<"0">>)),
      Returned(Get(order_data, "timeInForce", "GTC"))>>

BuildOrder(f) ==
    [order_id |-> f[1].val, symbol |-> f[2].val, side |-> f[3].val,
     order_type |-> f[4].val, quantity |-> f[5].val, price |-> f[6].val,
     status |-> f[7].val, filled_quantity |-> f[8].val,
     average_price |-> f[9].val, created_time |-> f[10].val,
     updated_time |-> f[11].val, time_in_force |-> f[12].val]

OM_parse_order(order_data) ==
    LET f == ParseOrderFields(order_data)
    IN  IF FirstRaise(f) # None THEN [exc |-> FirstRaise(f), val |-> None]
        ELSE Returned(BuildOrder(f))

\* The Order built after a successful placement
PlacedOrder(result, symbol, side, order_type, quantity, price, now, tif) ==
    [order_id |-> Get(result, "orderId", ""), symbol |-> symbol, side |-> side,
     order_type |-> order_type, quantity |-> quantity, price |-> price,
     status |-> "NEW", filled_quantity |-> DecimalZero,
     average_price |-> None, created_time |-> now, updated_time |-> now,
     time_in_force |-> tif]

OM_place_market_order(self, symbol, side, quantity, reduce_only, clock, exch) ==
    LET params == <<<<"category", StrV("linear")>>,
                    <<"symbol", StrV(symbol)>>,
                    <<"side", StrV(EnumValue(OrderSideMembers, side))>>,
                    <<"orderType", StrV(EnumValue(OrderTypeMembers, "MARKET"))>>,
                    <<"qty", StrV(DecimalStr(quantity))>>,
                    <<"reduceOnly", BoolV(reduce_only)>> >>
        r == OM_make_request(self, "POST", "/v5/order/create", params, clock, exch)
    IN  [wire |-> r.wire,
         res  |-> IF IsRaise(r.res) THEN Returned(None)
                  ELSE IF RetCodeOk(r.res.val)
                  THEN Returned(Some(PlacedOrder(
                           Get(r.res.val, "result", EmptyDict), symbol, side,
                           "MARKET", quantity, None, clock, "GTC")))
                  ELSE Returned(None)]

OM_place_limit_order(self, symbol, side, quantity, price, time_in_force, reduce_only, clock, exch) ==
    LET params == <<<<"category", StrV("linear")>>,
                    <<"symbol", StrV(symbol)>>,
                    <<"side", StrV(EnumValue(OrderSideMembers, side))>>,
                    <<"orderType", StrV(EnumValue(OrderTypeMembers, "LIMIT"))>>,
                    <<"qty", StrV(DecimalStr(quantity))>>,
                    <<"price", StrV(DecimalStr(price))>>,
                    <<"timeInForce", StrV(time_in_force)>>,
                    <<"reduceOnly", BoolV(reduce_only)>> >>
        r == OM_make_request(self, "POST", "/v5/order/create", params, clock, exch)
    IN  [wire |-> r.wire,
         res  |-> IF IsRaise(r.res) THEN Returned(None)
                  ELSE IF RetCodeOk(r.res.val)
                  THEN Returned(Some(PlacedOrder(
                           Get(r.res.val, "result", EmptyDict), symbol, side,
                           "LIMIT", quantity, Some(price), clock, time_in_force)))
                  ELSE Returned(None)]

\* cancel_order without its except clause
OM_cancel_order_NoExcept(self, symbol, order_id, clock, exch) ==
    LET params == <<<<"category", StrV("linear")>>,
                    <<"symbol", StrV(symbol)>>,
                    <<"orderId", StrV(order_id)>> >>
        r == OM_make_request(self, "POST", "/v5/order/cancel", params, clock, exch)
    IN  [wire |-> r.wire,
         res  |-> IF IsRaise(r.res) THEN r.res
                  ELSE Returned(RetCodeOk(r.res.val))]

OM_cancel_order(self, symbol, order_id, clock, exch) ==
    LET params == <<<<"category", StrV("linear")>>,
                    <<"symbol", StrV(symbol)>>,
                    <<"orderId", StrV(order_id)>> >>
        r == OM_make_request(self, "POST", "/v5/order/cancel", params, clock, exch)
    IN  [wire |-> r.wire,
         res  |-> IF IsRaise(r.res) THEN Returned(FALSE)
                  ELSE Returned(RetCodeOk(r.res.val))]

ResultList(body) == Get(Get(body, "result", EmptyDict), "list", <<>>)

OM_get_order_status(self, symbol, order_id, clock, exch) ==
    LET params == <<<<"category", StrV("linear")>>,
                    <<"symbol", StrV(symbol)>>,
                    <<"orderId", StrV(order_id)>> >>
        r == OM_make_request(self, "GET", "/v5/order/realtime", params, clock, exch)
    IN  [wire |-> r.wire,
         res  |-> IF IsRaise(r.res) THEN Returned(None)
                  ELSE IF RetCodeOk(r.res.val) /\ ResultList(r.res.val) # <<>>
                  THEN LET o == OM_parse_order(ResultList(r.res.val)[1])
                       IN  IF IsRaise(o) THEN Returned(None)
                           ELSE Returned(Some(o.val))
                  ELSE Returned(None)]

-----------------------------------------------------------------------------
(* portfolio.py                                                            *)

\* timestamp + self.api_key + str(self.recv_window) + params, then the digest
PM_generate_signature(self, timestamp, params) ==
    LET param_str == PyAdd(PyAdd(PyAdd(Returned(StrV(timestamp)),
                                       StrV(self.api_key)),
                                 StrV(PyStr(self.recv_window))),
                           StrV(params))
    IN  IF IsRaise(param_str) THEN param_str
        ELSE Returned(HmacSha256Hex(self.api_secret, param_str.val.v))

\* the Portfolio Manager serializing as the Order Manager does
PM_params_str_JsonOnGet(method, params) ==
    IF params # <<>> THEN JsonDumps(params) ELSE ""

\* GET with params: the joined query string; POST with params: the JSON body
PM_params_str(method, params) ==
    IF method = "GET" /\ params # <<>> THEN QueryString(params)
    ELSE IF method = "POST" /\ params # <<>> THEN JsonDumps(params)
    ELSE ""

PM_make_request(self, method, endpoint, params, clock, exch) ==
    LET params_str == PM_params_str(method, params)
    IN  SendRequest(self, PM_generate_signature(self, clock, params_str),
                    method, endpoint, params, params_str, clock, exch)

ParsePositionFields(pos_data, side) ==
    <<Returned(Get(pos_data, "symbol", "")),
      side,
      Decimal(Get(pos_data, "size", <<"0">>)),
      OptDecimal(pos_data, "avgPrice"),
      OptDecimal(pos_data, "markPrice"),
      OptDecimal(pos_data, "unrealisedPnl"),
      OptDecimal(pos_data, "cumRealisedPnl"),
      OptDecimal(pos_data, "leverage"),
      OptDecimal(pos_data, "positionIM")>>

BuildPosition(f) ==
    [symbol |-> f[1].val, side |-> f[2].val, size |-> f[3].val,
     entry_price |-> f[4].val, mark_price |-> f[5].val,
     unrealized_pnl |-> f[6].val, realized_pnl |-> f[7].val,
     leverage |-> f[8].val, margin |-> f[9].val]

\* the side taken from the side string whatever the size
PositionSideOf_NoOverride(size, side_str) == PositionSide(side_str)

\* The side of a position: NONE when the size is zero, else the member the
\* side string names (ValueError when it names none)
PositionSideOf(size, side_str) ==
    IF DecEq(size, DecimalZero) THEN Returned("NONE") ELSE PositionSide(side_str)

PM_parse_position(pos_data) ==
    LET size == Decimal(Get(pos_data, "size", <<"0">>))
        side_str == Get(pos_data, "side", "None")
    IN  IF IsRaise(size) THEN size
        ELSE LET side == PositionSideOf(size.val, side_str)
                 f == ParsePositionFields(pos_data, side)
             IN  IF IsRaise(side) THEN side
                 ELSE IF FirstRaise(f) # None
                 THEN [exc |-> FirstRaise(f), val |-> None]
                 ELSE Returned(BuildPosition(f))

\* get_positions without its size filter
KeepPosition_NoFilter(position) == TRUE

\* if position.size != Decimal("0")
KeepPosition(position) == ~DecEq(position.size, DecimalZero)

\* The loop of get_positions over positions_data[i..]: a raise while parsing
\* any record leaves the loop with that exception.
RECURSIVE PositionsLoop(_, _, _)
PositionsLoop(positions_data, i, positions) ==
    IF i > Len(positions_data) THEN Returned(positions)
    ELSE LET position == PM_parse_position(positions_data[i])
         IN  IF IsRaise(position) THEN position
             ELSE PositionsLoop(positions_data, i + 1,
                      IF KeepPosition(position.val)
                      THEN Append(positions, position.val) ELSE positions)

\* "if symbol:" and the like: an optional string argument that is set and
\* not empty
Truthy(opt) == opt # None /\ opt[1] # ""

PM_get_positions(self, symbol, clock, exch) ==
    LET params == <<<<"category", StrV("linear")>>>>
                  \o (IF Truthy(symbol) THEN <<<<"symbol", StrV(symbol[1])>>>>
                      ELSE <<>>)
        r == PM_make_request(self, "GET", "/v5/position/list", params, clock, exch)
    IN  [wire |-> r.wire,
         res  |-> IF IsRaise(r.res) THEN Returned(<<>>)
                  ELSE IF RetCodeOk(r.res.val)
                  THEN LET ps == PositionsLoop(ResultList(r.res.val), 1, <<>>)
                       IN  IF IsRaise(ps) THEN Returned(<<>>) ELSE ps
                  ELSE Returned(<<>>)]

PM_parse_order(order_data) ==
    LET f == ParseOrderFields(order_data)
    IN  IF FirstRaise(f) # None THEN [exc |-> FirstRaise(f), val |-> None]
        ELSE Returned(BuildOrder(f))

\* The loop of get_orders and get_order_history over orders_data[i..]
RECURSIVE OrdersLoop(_, _, _)
OrdersLoop(orders_data, i, orders) ==
    IF i > Len(orders_data) THEN Returned(orders)
    ELSE LET order == PM_parse_order(orders_data[i])
         IN  IF IsRaise(order) THEN order
             ELSE OrdersLoop(orders_data, i + 1, Append(orders, order.val))

\* get_orders without the except clause around the parse loop
OrdersResult_NoExcept(r) ==
    IF IsRaise(r.res) THEN Returned(<<>>)
    ELSE IF RetCodeOk(r.res.val)
    THEN OrdersLoop(ResultList(r.res.val), 1, <<>>)
    ELSE Returned(<<>>)

\* What get_orders and get_order_history do with the answer of the request
OrdersResult(r) ==
    IF IsRaise(r.res) THEN Returned(<<>>)
    ELSE IF RetCodeOk(r.res.val)
    THEN LET os == OrdersLoop(ResultList(r.res.val), 1, <<>>)
         IN  IF IsRaise(os) THEN Returned(<<>>) ELSE os
    ELSE Returned(<<>>)

PM_get_orders(self, symbol, order_status, limit, clock, exch) ==
    LET params == <<<<"category", StrV("linear")>>, <<"limit", IntV(limit)>>>>
                  \o (IF Truthy(symbol) THEN <<<<"symbol", StrV(symbol[1])>>>>
                      ELSE <<>>)
                  \o (IF Truthy(order_status)
                      THEN <<<<"orderStatus", StrV(order_status[1])>>>> ELSE <<>>)
        r == PM_make_request(self, "GET", "/v5/order/realtime", params, clock, exch)
    IN  [wire |-> r.wire, res |-> OrdersResult(r)]

PM_get_order_history(self, symbol, limit, clock, exch) ==
    LET params == <<<<"category", StrV("linear")>>, <<"limit", IntV(limit)>>>>
                  \o (IF Truthy(symbol) THEN <<<<"symbol", StrV(symbol[1])>>>>
                      ELSE <<>>)
        r == PM_make_request(self, "GET", "/v5/order/history", params, clock, exch)
    IN  [wire |-> r.wire, res |-> OrdersResult(r)]

\* Balance(coin=..., wallet_balance=Decimal(...), ...): the three amounts are
\* parsed without a truthiness test, so an empty string raises as well
ParseBalance(coin_data) ==
    LET f == <<Decimal(Get(coin_data, "walletBalance", <<"0">>)),
               Decimal(Get(coin_data, "availableToWithdraw", <<"0">>)),
               Decimal(Get(coin_data, "locked", <<"0">>))>>
    IN  IF FirstRaise(f) # None THEN [exc |-> FirstRaise(f), val |-> None]
        ELSE Returned([coin |-> Get(coin_data, "coin", ""),
                       wallet_balance |-> f[1].val,
                       available_balance |-> f[2].val,
                       used_balance |-> f[3].val])

\* The loop of get_account_info over wallet_data.get("coin", [])
RECURSIVE BalancesLoop(_, _, _)
BalancesLoop(coins, i, balances) ==
    IF i > Len(coins) THEN Returned(balances)
    ELSE IF IsRaise(ParseBalance(coins[i])) THEN ParseBalance(coins[i])
    ELSE BalancesLoop(coins, i + 1, Append(balances, ParseBalance(coins[i]).val))

\* the nested query letting a transport failure through to its caller
NestedPositions_Raising(self, clock, pos_exch) ==
    IF pos_exch.kind = "fail"
    THEN [wire |-> PM_get_positions(self, None, clock, pos_exch).wire,
          res  |-> Raised("RequestException")]
    ELSE PM_get_positions(self, None, clock, pos_exch)

\* positions = self.get_positions(): a second request, with its own answer
NestedPositions(self, clock, pos_exch) ==
    PM_get_positions(self, None, clock, pos_exch)

\* get_account_info once the wallet list is known not to be empty: balances,
\* then the nested positions query, then the two totals; any raise ends in
\* the except clause, which returns None.  wire is the request made last.
AccountInfoOf(wallet_wire, wallet_data, positions) ==
    IF IsRaise(BalancesLoop(Get(wallet_data, "coin", <<>>), 1, <<>>))
    THEN [wire |-> wallet_wire, res |-> Returned(None)]
    ELSE IF \/ IsRaise(positions.res)
            \/ IsRaise(Decimal(Get(wallet_data, "totalWalletBalance", <<"0">>)))
            \/ IsRaise(Decimal(Get(wallet_data, "totalUnrealisedPnl", <<"0">>)))
    THEN [wire |-> positions.wire, res |-> Returned(None)]
    ELSE [wire |-> positions.wire,
          res  |-> Returned(Some(
              [balances  |-> BalancesLoop(Get(wallet_data, "coin", <<>>), 1, <<>>).val,
               positions |-> positions.res.val,
               total_wallet_balance |->
                   Decimal(Get(wallet_data, "totalWalletBalance", <<"0">>)).val,
               total_unrealized_pnl |->
                   Decimal(Get(wallet_data, "totalUnrealisedPnl", <<"0">>)).val]))]

PM_get_account_info(self, clock, exch, pos_exch) ==
    LET r == PM_make_request(self, "GET", "/v5/account/wallet-balance",
                             <<<<"accountType", StrV("UNIFIED")>>>>, clock, exch)
    IN  IF IsRaise(r.res) THEN [wire |-> r.wire, res |-> Returned(None)]
        ELSE IF RetCodeOk(r.res.val) /\ ResultList(r.res.val) # <<>>
        THEN AccountInfoOf(r.wire, ResultList(r.res.val)[1],
                           NestedPositions(self, clock, pos_exch))
        ELSE [wire |-> r.wire, res |-> Returned(None)]

-----------------------------------------------------------------------------
(* The REST specification: a caller invokes the public operations of the   *)
(* two managers with arguments and exchange answers drawn from small sets. *)

MaxList == 3

Symbols == {"BTCUSDT", "ETHUSDT"}

OptSymbols == {None, Some(""), Some("BTCUSDT")}

Clocks == {"1700000000000"}

D(s) == Decimal(s).val

Quantities == {D(<<"0", ".", "0", "0", "1">>), D(<<"1">>), D(<<"0">>),
               D(<<"2", ".", "5", "0">>)}

Prices == {D(<<"3", "0", "0", "0", "0">>), D(<<"0", ".", "5">>)}

Json(body) == [kind |-> "json", body |-> body]

TransportFailure == [kind |-> "fail"]

\* retCode values of a logical failure, and a body without retCode
FailureBodies ==
    {[retCode |-> 10001, retMsg |-> "params error", result |-> EmptyDict],
     [retCode |-> 110007, retMsg |-> "insufficient balance"],
     [retMsg |-> "no code"]}

CreateResponses ==
    {TransportFailure}
    \cup {Json(b) : b \in FailureBodies}
    \cup {Json([retCode |-> 0, result |-> [orderId |-> "A1"]]),
          Json([retCode |-> 0, result |-> [orderId |-> "B2"]]),
          Json([retCode |-> 0, result |-> EmptyDict]),
          Json([retCode |-> 0]),
          Json([retCode |-> 10001, result |-> [orderId |-> "A1"]])}

CancelResponses ==
    {TransportFailure}
    \cup {Json(b) : b \in FailureBodies}
    \cup {Json([retCode |-> 0, result |-> [orderId |-> "A1"]])}

Without(d, k) == [x \in DOMAIN d \ {k} |-> d[x]]

With(d, k, v) == (k :> v) @@ d

BaseOrder ==
    [orderId |-> "A1", symbol |-> "BTCUSDT", side |-> "Buy",
     orderType |-> "Limit", qty |-> <<"1">>, price |-> <<"3", "0">>,
     orderStatus |-> "New", cumExecQty |-> <<"0">>, avgPrice |-> <<>>,
     createdTime |-> <<"1", "5", "0", "0">>,
     updatedTime |-> <<"2", "5", "0", "0">>, timeInForce |-> "GTC"]

MarketOrder ==
    [orderId |-> "B2", symbol |-> "ETHUSDT", side |-> "Sell",
     orderType |-> "Market", qty |-> <<"2", ".", "5">>,
     orderStatus |-> "Filled", cumExecQty |-> <<"2", ".", "5">>,
     avgPrice |-> <<"0">>, createdTime |-> <<"9">>, updatedTime |-> <<"9">>]

\* Exchange order records: well-formed ones, and ones with a string outside
\* an enumeration, a price that is "0", empty or missing, or a malformed number
OrderRecords ==
    {BaseOrder, MarketOrder,
     With(BaseOrder, "side", "Long"),
     With(MarketOrder, "orderStatus", "Untriggered"),
     With(BaseOrder, "price", <<"0">>),
     Without(BaseOrder, "price"),
     With(BaseOrder, "qty", <<"x">>),
     EmptyDict}

BasePosition ==
    [symbol |-> "BTCUSDT", side |-> "Buy", size |-> <<"1">>,
     avgPrice |-> <<"1", ".", "5">>, markPrice |-> <<"2">>,
     unrealisedPnl |-> <<"0", ".", "5">>, cumRealisedPnl |-> <<"0">>,
     leverage |-> <<"1", "0">>, positionIM |-> <<>>]

ShortPosition ==
    [symbol |-> "ETHUSDT", side |-> "Sell", size |-> <<"2", ".", "5">>,
     avgPrice |-> <<"3">>]

\* Exchange position records: open ones, flat ones under several spellings of
\* zero and several side strings, and ones that do not parse
PositionRecords ==
    {BasePosition, ShortPosition,
     With(BasePosition, "size", <<"0">>),
     With(With(ShortPosition, "size", <<"0", ".", "0">>), "side", ""),
     With(With(BasePosition, "size", <<"0">>), "side", "Long"),
     With(BasePosition, "side", "Long"),
     With(ShortPosition, "size", <<"x">>),
     With(With(BasePosition, "size", <<"-", "0">>), "avgPrice", <<"x">>),
     [symbol |-> "SOLUSDT"]}

RECURSIVE SeqsUpTo(_, _)
SeqsUpTo(S, n) ==
    IF n = 0 THEN {<<>>}
    ELSE LET shorter == SeqsUpTo(S, n - 1)
         IN  shorter \cup {Append(q, x) : q \in shorter, x \in S}

ListResponses(records) ==
    {TransportFailure}
    \cup {Json(b) : b \in FailureBodies}
    \cup {Json([retCode |-> 0]), Json([retCode |-> 0, result |-> EmptyDict])}
    \cup {Json([retCode |-> 0, result |-> [list |-> l]]) :
              l \in SeqsUpTo(records, MaxList)}
    \cup {Json([retCode |-> 10001, result |-> [list |-> <<r>>]]) : r \in records}

StreamIdle ==
    /\ websocket = <<>> /\ orderbook = <<>> /\ callback = <<>> /\ best = <<>>
    /\ conn = <<>> /\ inbox = <<>> /\ arrived = <<>> /\ listenPc = <<>>
    /\ listenCalls = <<>> /\ discPc = <<>> /\ events = <<>>
    /\ mainPc = "none"

Init ==
    /\ call = [op |-> "none"]
    /\ exchange = TransportFailure
    /\ wire = NoWire
    /\ outcome = Returned(None)
    /\ StreamIdle

\* One call at a time: the managers are synchronous and keep no state
\* between calls, so a call starts from the idle state and Return gives the
\* result back to the caller.
Idle == call.op = "none"

Record(c, exch, r) ==
    /\ call' = c
    /\ exchange' = exch
    /\ wire' = r.wire
    /\ outcome' = r.res

PlaceMarketOrder ==
    /\ Idle
    /\ \E symbol \in Symbols, side \in {"BUY", "SELL"}, quantity \in Quantities,
          reduce_only \in BOOLEAN, clock \in Clocks, exch \in CreateResponses :
           Record([op |-> "place_market_order", symbol |-> symbol, side |-> side, quantity |-> quantity, reduce_only |-> reduce_only, clock |-> clock],
                  exch,
                  OM_place_market_order(NewManager, symbol, side, quantity, reduce_only, clock, exch))
    /\ UNCHANGED streamVars

PlaceLimitOrder ==
    /\ Idle
    /\ \E symbol \in Symbols, side \in {"BUY", "SELL"}, quantity \in Quantities,
          price \in Prices, tif \in {"GTC", "IOC"}, reduce_only \in BOOLEAN,
          clock \in Clocks, exch \in CreateResponses :
           Record([op |-> "place_limit_order", symbol |-> symbol, side |-> side, quantity |-> quantity, price |-> price, time_in_force |-> tif, reduce_only |-> reduce_only, clock |-> clock],
                  exch,
                  OM_place_limit_order(NewManager, symbol, side, quantity, price, tif, reduce_only, clock, exch))
    /\ UNCHANGED streamVars

CancelOrder ==
    /\ Idle
    /\ \E symbol \in Symbols, order_id \in {"A1", "B2"}, clock \in Clocks,
          exch \in CancelResponses :
           Record([op |-> "cancel_order", symbol |-> symbol, order_id |-> order_id, clock |-> clock],
                  exch,
                  OM_cancel_order(NewManager, symbol, order_id, clock, exch))
    /\ UNCHANGED streamVars

GetOrderStatus ==
    /\ Idle
    /\ \E symbol \in Symbols, order_id \in {"A1"}, clock \in Clocks,
          exch \in ListResponses(OrderRecords) :
           Record([op |-> "get_order_status", symbol |-> symbol, order_id |-> order_id, clock |-> clock],
                  exch,
                  OM_get_order_status(NewManager, symbol, order_id, clock, exch))
    /\ UNCHANGED streamVars

GetPositions ==
    /\ Idle
    /\ \E symbol \in OptSymbols, clock \in Clocks,
          exch \in ListResponses(PositionRecords) :
           Record([op |-> "get_positions", symbol |-> symbol, clock |-> clock],
                  exch,
                  PM_get_positions(NewManager, symbol, clock, exch))
    /\ UNCHANGED streamVars

\* Answers to the wallet-balance request: failures, an empty account list,
\* and accounts whose coins or totals parse or do not
WalletResponses ==
    LET usdt == [coin |-> "USDT", walletBalance |-> <<"1", "0", "0">>,
                 availableToWithdraw |-> <<"9", "0">>, locked |-> <<"1", "0">>]
        wallet == [totalWalletBalance |-> <<"1", "0", "0">>,
                   totalUnrealisedPnl |-> <<"-", "1", ".", "5">>,
                   coin |-> <<usdt, [coin |-> "BTC"]>>]
    IN  {TransportFailure, Json([retCode |-> 10001, retMsg |-> "params error"]),
         Json([retCode |-> 0]),
         Json([retCode |-> 0, result |-> [list |-> <<>>]])}
        \cup {Json([retCode |-> 0, result |-> [list |-> <<w>>]]) :
                  w \in {wallet,
                         Without(wallet, "coin"),
                         Without(wallet, "totalUnrealisedPnl"),
                         With(wallet, "coin", <<usdt, With(usdt, "locked", <<>>)>>),
                         With(wallet, "coin", <<With(usdt, "walletBalance", <<"x">>)>>),
                         With(wallet, "totalWalletBalance", <<>>),
                         With(wallet, "totalUnrealisedPnl", <<"x">>)}}

\* Answers to the position-list request get_account_info makes
NestedResponses ==
    {TransportFailure, Json([retCode |-> 10001, retMsg |-> "params error"]),
     Json([retCode |-> 0, result |-> [list |-> <<>>]]),
     Json([retCode |-> 0, result |->
              [list |-> <<BasePosition, With(BasePosition, "size", <<"0">>),
                          ShortPosition>>]]),
     Json([retCode |-> 0, result |->
              [list |-> <<BasePosition, With(BasePosition, "side", "Long")>>]])}

GetAccountInfo ==
    /\ Idle
    /\ \E clock \in Clocks, exch \in WalletResponses, pos_exch \in NestedResponses :
           Record([op |-> "get_account_info", clock |-> clock,
                   positions_exchange |-> pos_exch],
                  exch,
                  PM_get_account_info(NewManager, clock, exch, pos_exch))
    /\ UNCHANGED streamVars

\* (symbol, order_status) arguments of get_orders
OrdersArgs ==
    {<<None, None>>, <<Some("BTCUSDT"), None>>, <<Some("BTCUSDT"), Some("New")>>}

GetOrders ==
    /\ Idle
    /\ \E args \in OrdersArgs, limit \in {50}, clock \in Clocks,
          exch \in ListResponses(OrderRecords) :
           Record([op |-> "get_orders", symbol |-> args[1],
                   order_status |-> args[2], limit |-> limit, clock |-> clock],
                  exch,
                  PM_get_orders(NewManager, args[1], args[2], limit, clock, exch))
    /\ UNCHANGED streamVars

\* (symbol, limit) arguments of get_order_history
HistoryArgs == {<<None, 50>>, <<Some("ETHUSDT"), 50>>, <<Some("ETHUSDT"), 7>>}

GetOrderHistory ==
    /\ Idle
    /\ \E args \in HistoryArgs, clock \in Clocks,
          exch \in ListResponses(OrderRecords) :
           Record([op |-> "get_order_history", symbol |-> args[1],
                   limit |-> args[2], clock |-> clock],
                  exch,
                  PM_get_order_history(NewManager, args[1], args[2], clock, exch))
    /\ UNCHANGED streamVars

\* Inputs of the parsers called on one record
PositionInputs ==
    {[k \in {x \in {"symbol", "size", "side", "avgPrice"} : f[x] # "absent"}
         |-> f[k]] :
     f \in [symbol   : {"BTCUSDT"},
            size     : {"absent", <<"0">>, <<"0", ".", "0">>, <<"-", "0">>,
                        <<"1">>, <<"-", "2", ".", "5">>, <<"x">>, <<>>},
            side     : {"absent", "Buy", "Sell", "None", "", "Long"},
            avgPrice : {"absent", <<>>, <<"1", ".", "5">>, <<"x">>}]}

OrderInputs ==
    {[k \in {x \in DOMAIN f : f[x] # "absent"} |-> f[k]] :
     f \in [orderId     : {"A1"},
            side        : {"absent", "Buy", "Long"},
            orderType   : {"Limit", "Stop"},
            qty         : {<<"1">>, <<"x">>},
            price       : {"absent", <<>>, <<"0">>, <<"3", "0">>},
            orderStatus : {"New", "Untriggered"},
            avgPrice    : {"absent", <<>>, <<"0">>, <<"1", ".", "5">>},
            createdTime : {<<"1", "5", "0", "0">>}]}

\* _parse_position called on one exchange record
ParsePosition ==
    /\ Idle
    /\ \E pos_data \in PositionInputs :
           Record([op |-> "_parse_position", pos_data |-> pos_data],
                  Json([retCode |-> 0, result |-> [list |-> <<pos_data>>]]),
                  [wire |-> NoWire, res |-> PM_parse_position(pos_data)])
    /\ UNCHANGED streamVars

\* _parse_order of either manager called on one exchange record
ParseOrder ==
    /\ Idle
    /\ \E manager \in {"order_manager", "portfolio"}, order_data \in OrderInputs :
           Record([op |-> "_parse_order", manager |-> manager,
                   order_data |-> order_data],
                  Json([retCode |-> 0, result |-> [list |-> <<order_data>>]]),
                  [wire |-> NoWire,
                   res |-> IF manager = "order_manager"
                           THEN OM_parse_order(order_data)
                           ELSE PM_parse_order(order_data)])
    /\ UNCHANGED streamVars

RequestParams ==
    {<<>>,
     <<<<"category", StrV("linear")>>, <<"symbol", StrV("BTCUSDT")>>>>,
     <<<<"category", StrV("linear")>>, <<"limit", IntV(50)>>>>,
     <<<<"symbol", StrV("ETHUSDT")>>, <<"reduceOnly", BoolV(FALSE)>>,
       <<"category", StrV("linear")>>>>,
     <<<<"accountType", StrV("UNIFIED")>>>>}

\* _make_request of either manager called with a method and a parameter dict
MakeRequest ==
    /\ Idle
    /\ \E manager \in {"order_manager", "portfolio"},
          method \in {"GET", "POST", "PUT"}, params \in RequestParams,
          clock \in Clocks,
          exch \in {TransportFailure, Json([retCode |-> 0]),
                    Json([retCode |-> 10001])} :
           Record([op |-> "_make_request", manager |-> manager,
                   method |-> method, params |-> params, clock |-> clock],
                  exch,
                  IF manager = "order_manager"
                  THEN OM_make_request(NewManager, method, "/v5/x", params,
                                       clock, exch)
                  ELSE PM_make_request(NewManager, method, "/v5/x", params,
                                       clock, exch))
    /\ UNCHANGED streamVars

Return ==
    /\ ~Idle
    /\ call' = [op |-> "none"]
    /\ exchange' = TransportFailure
    /\ wire' = NoWire
    /\ outcome' = Returned(None)
    /\ UNCHANGED streamVars

Next ==
    \/ Return
    \/ PlaceMarketOrder
    \/ PlaceLimitOrder
    \/ CancelOrder
    \/ GetOrderStatus
    \/ GetPositions
    \/ GetOrders
    \/ GetOrderHistory
    \/ GetAccountInfo
    \/ ParsePosition
    \/ ParseOrder
    \/ MakeRequest

Spec == Init /\ [][Next]_vars

-----------------------------------------------------------------------------
(* Properties of the REST managers, checked under Spec                     *)

Answered == exchange.kind = "json"

Success == Answered /\ RetCodeOk(exchange.body)

LogicalFailure == Answered /\ ~RetCodeOk(exchange.body)

AnsweredList == ResultList(exchange.body)

\* C1: when the exchange answers the create-order call with retCode == 0
\* (and an orderId), place_market_order returns an Order, not absent, with
\* the input quantity, no price, status New, filled quantity zero and the
\* order id of the response.
C1_MarketOrderOnSuccess ==
    (/\ call.op = "place_market_order"
     /\ Success
     /\ Has(exchange.body, "result")
     /\ Has(exchange.body.result, "orderId"))
    => /\ ~IsRaise(outcome)
       /\ outcome.val # None
       /\ outcome.val[1].quantity = call.quantity
       /\ outcome.val[1].price = None
       /\ outcome.val[1].status = "NEW"
       /\ DecEq(outcome.val[1].filled_quantity, DecimalZero)
       /\ outcome.val[1].order_id = exchange.body.result.orderId

\* C1, what the code does instead: the signature step raises TypeError before
\* anything is sent, and every place_market_order returns absent.
C1_MarketOrderNeverSent ==
    call.op = "place_market_order"
    => wire.sent = None /\ wire.headers = None /\ outcome = Returned(None)

\* C2: for every answer with retCode != 0 to order creation (market or
\* limit), cancellation or status lookup, the Order Manager operation
\* returns absent (false for cancel_order) and no exception escapes.
C2_FailureGivesAbsent ==
    (/\ call.op \in {"place_market_order", "place_limit_order",
                     "cancel_order", "get_order_status"}
     /\ LogicalFailure)
    => /\ ~IsRaise(outcome)
       /\ IF call.op = "cancel_order" THEN outcome.val = FALSE
          ELSE outcome.val = None

C2_Witness ==
    /\ call.op = "cancel_order"
    /\ LogicalFailure
    /\ Has(exchange.body, "retCode")
    /\ exchange.body.retCode = 10001
    /\ outcome = Returned(FALSE)

SizeOf(pos_data) == Decimal(Get(pos_data, "size", <<"0">>))

SizeNonZero(pos_data) ==
    ~IsRaise(SizeOf(pos_data)) /\ SizeOf(pos_data).val.coef # 0

Parses(pos_data) == ~IsRaise(PM_parse_position(pos_data))

\* The positions a result list stands for: symbol and size of each, in order
Shown(positions) ==
    [i \in DOMAIN positions |->
        <<positions[i].symbol, positions[i].size>>]

ShownRecords(records) ==
    [i \in DOMAIN records |->
        <<Get(records[i], "symbol", ""), SizeOf(records[i]).val>>]

\* C3 as stated: for every list of position records of a successful
\* position-list call, get_positions returns exactly the records whose parsed
\* size is non-zero, in their original order.
C3_ExactlyNonZero ==
    (call.op = "get_positions" /\ Success)
    => Shown(outcome.val) = ShownRecords(SelectSeq(AnsweredList, SizeNonZero))

\* C3 amended: when every record of the list parses, get_positions returns
\* exactly the records whose parsed size is non-zero, in their original order,
\* and never one whose size is zero (the empty list gives the empty list);
\* when some record of the list does not parse, the result is the empty list.
C3_NonZeroWhenAllParse ==
    (call.op = "get_positions" /\ Success)
    => /\ ~IsRaise(outcome)
       /\ \A i \in DOMAIN outcome.val : outcome.val[i].size.coef # 0
       /\ IF \A i \in DOMAIN AnsweredList : Parses(AnsweredList[i])
          THEN Shown(outcome.val)
                   = ShownRecords(SelectSeq(AnsweredList, SizeNonZero))
          ELSE outcome.val = <<>>

C3_Witness ==
    /\ call.op = "get_positions"
    /\ Success
    /\ Len(AnsweredList) = 3
    /\ \A i \in DOMAIN AnsweredList : Parses(AnsweredList[i])
    /\ SizeNonZero(AnsweredList[1])
    /\ ~SizeNonZero(AnsweredList[2])
    /\ SizeNonZero(AnsweredList[3])
    /\ AnsweredList[1] # AnsweredList[3]
    /\ Len(outcome.val) = 2

NamedSide ==
    [Buy |-> "LONG", Sell |-> "SHORT", None |-> "NONE"]

\* C4: parsing a position record whose size is zero yields side None
\* whatever side string the record carries, and never fails on the side
\* string; when the size is non-zero the side is the one the side string
\* names (a missing side reads as "None"), and a side string that names none
\* is a ValueError.
C4_ZeroSizeIsNone ==
    (call.op = "_parse_position" /\ ~IsRaise(SizeOf(call.pos_data)))
    => IF SizeOf(call.pos_data).val.coef = 0
       THEN /\ outcome.exc # Some("ValueError")
            /\ ~IsRaise(outcome) => outcome.val.side = "NONE"
       ELSE IF Get(call.pos_data, "side", "None") \in DOMAIN NamedSide
       THEN /\ outcome.exc # Some("ValueError")
            /\ ~IsRaise(outcome)
               => outcome.val.side = NamedSide[Get(call.pos_data, "side", "None")]
       ELSE outcome = Raised("ValueError")

C4_Witness ==
    /\ call.op = "_parse_position"
    /\ Has(call.pos_data, "size")
    /\ call.pos_data.size = <<"0", ".", "0">>
    /\ Has(call.pos_data, "side")
    /\ call.pos_data.side = "Long"
    /\ ~IsRaise(outcome)
    /\ outcome.val.side = "NONE"

BadEnum(order_data) ==
    \/ Get(order_data, "side", "") \notin {"Buy", "Sell"}
    \/ Get(order_data, "orderType", "") \notin {"Market", "Limit"}
    \/ Get(order_data, "orderStatus", "")
           \notin {"New", "PartiallyFilled", "Filled", "Cancelled", "Rejected"}

\* The call is one that has to parse a record with a string outside the
\* enumerations: the first record for get_order_status, any record for
\* get_orders and get_order_history
MeetsBadEnum ==
    /\ Success
    /\ \/ /\ call.op = "get_order_status"
          /\ AnsweredList # <<>>
          /\ BadEnum(AnsweredList[1])
       \/ /\ call.op \in {"get_orders", "get_order_history"}
          /\ \E i \in DOMAIN AnsweredList : BadEnum(AnsweredList[i])

\* C9 as stated: a side, order-type or order-status string outside the
\* enumeration makes the operation fail with an Invalid-Value error that
\* reaches the caller.
C9_InvalidValueReachesCaller ==
    MeetsBadEnum => outcome.exc = Some("ValueError")

\* C9 amended: the Invalid-Value error is raised by _parse_order (when qty
\* and price of the record parse) but never reaches the caller of
\* the operation: get_order_status returns absent, get_orders and
\* get_order_history return the empty list, records that parsed included.
C9_InvalidValueIsCaught ==
    /\ MeetsBadEnum
       => outcome = Returned(IF call.op = "get_order_status" THEN None ELSE <<>>)
    /\ (/\ call.op = "_parse_order"
        /\ BadEnum(call.order_data)
        /\ ~IsRaise(Decimal(Get(call.order_data, "qty", <<"0">>)))
        /\ ~IsRaise(OptDecimal(call.order_data, "price")))
       => outcome = Raised("ValueError")

C9_Witness ==
    /\ call.op = "get_orders"
    /\ Success
    /\ Len(AnsweredList) = 2
    /\ ~BadEnum(AnsweredList[1])
    /\ ~IsRaise(PM_parse_order(AnsweredList[1]))
    /\ Get(AnsweredList[2], "orderStatus", "") = "Untriggered"
    /\ outcome = Returned(<<>>)

\* The serializations of the parameter dicts of RequestParams, written out
JsonText(params) ==
    CASE params = <<>> -> ""
      [] Len(params) = 1 -> "{\"accountType\": \"UNIFIED\"}"
      [] Len(params) = 2 /\ params[2][1] = "symbol"
            -> "{\"category\": \"linear\", \"symbol\": \"BTCUSDT\"}"
      [] Len(params) = 2 /\ params[2][1] = "limit"
            -> "{\"category\": \"linear\", \"limit\": 50}"
      [] Len(params) = 3
            -> "{\"symbol\": \"ETHUSDT\", \"reduceOnly\": false, \"category\": \"linear\"}"

QueryText(params) ==
    CASE params = <<>> -> ""
      [] Len(params) = 1 -> "accountType=UNIFIED"
      [] Len(params) = 2 /\ params[2][1] = "symbol"
            -> "category=linear&symbol=BTCUSDT"
      [] Len(params) = 2 /\ params[2][1] = "limit"
            -> "category=linear&limit=50"
      [] Len(params) = 3
            -> "symbol=ETHUSDT&reduceOnly=False&category=linear"

\* C10 as stated: for every GET request, whatever its query parameters, the
\* Order Manager signs an empty parameter string (the Portfolio Manager the
\* joined query string; both the JSON object for POST).
C10_OrderManagerSignsEmptyOnGet ==
    (/\ call.op = "_make_request"
     /\ call.manager = "order_manager"
     /\ call.method = "GET")
    => wire.signed = Some("")

\* C10 amended: the parameter string the Order Manager hands to the signing
\* step is the JSON-serialized parameter object for GET as for POST, and the
\* empty string only when there are no parameters; the Portfolio Manager
\* hands over the query parameters joined as key=value with "&" in parameter
\* order for GET, and the JSON-serialized object for POST.
C10_SignedString ==
    (call.op = "_make_request" /\ call.method \in {"GET", "POST"})
    => wire.signed =
         Some(IF call.manager = "portfolio" /\ call.method = "GET"
              THEN QueryText(call.params) ELSE JsonText(call.params))

C10_Witness ==
    /\ call.op = "_make_request"
    /\ call.manager = "order_manager"
    /\ call.method = "GET"
    /\ Len(call.params) = 2
    /\ wire.signed = Some("{\"category\": \"linear\", \"limit\": 50}")

\* The wallet record get_account_info reads: the first of the account list
WalletData == AnsweredList[1]

\* The wallet-balance step fails as C11 lists it: transport error,
\* retCode != 0, empty account list, or a raise while building the balances
WalletStepFails ==
    \/ ~Success
    \/ AnsweredList = <<>>
    \/ IsRaise(BalancesLoop(Get(WalletData, "coin", <<>>), 1, <<>>))

\* One of the two totals of the wallet record is not a decimal
TotalsFail ==
    /\ Success
    /\ AnsweredList # <<>>
    /\ \/ IsRaise(Decimal(Get(WalletData, "totalWalletBalance", <<"0">>)))
       \/ IsRaise(Decimal(Get(WalletData, "totalUnrealisedPnl", <<"0">>)))

\* The nested position-list query fails: transport error, retCode != 0, or a
\* record that does not parse
NestedFails ==
    \/ call.positions_exchange.kind = "fail"
    \/ ~RetCodeOk(call.positions_exchange.body)
    \/ \E i \in DOMAIN ResultList(call.positions_exchange.body) :
           ~Parses(ResultList(call.positions_exchange.body)[i])

\* What holds of every AccountInfo returned: no position of size zero, and
\* no position at all when the nested query failed
PositionsAsClaimed ==
    (~IsRaise(outcome) /\ outcome.val # None)
    => /\ \A i \in DOMAIN outcome.val[1].positions :
              outcome.val[1].positions[i].size.coef # 0
       /\ NestedFails => outcome.val[1].positions = <<>>

\* C11 as stated: get_account_info returns absent if and only if the
\* wallet-balance step fails (transport error, retCode != 0, empty account
\* list, or an exception while building the balances); a failure of the
\* nested get_positions alone gives an AccountInfo with no positions, and no
\* returned AccountInfo lists a position of size zero.
C11_AbsentIffWalletStepFails ==
    call.op = "get_account_info"
    => /\ ~IsRaise(outcome)
       /\ outcome.val = None <=> WalletStepFails
       /\ PositionsAsClaimed

\* C11 amended: get_account_info returns absent if and only if the
\* wallet-balance step fails (transport error, retCode != 0, empty account
\* list, or an exception while building the balances) or one of the two
\* totals of the wallet record, parsed after the nested query, is not a
\* decimal; a failure of the nested get_positions alone gives an AccountInfo
\* with no positions, and no returned AccountInfo lists a position of size
\* zero.
C11_AbsentIffWalletDataFails ==
    call.op = "get_account_info"
    => /\ ~IsRaise(outcome)
       /\ outcome.val = None <=> (WalletStepFails \/ TotalsFail)
       /\ PositionsAsClaimed

C11_Witness ==
    /\ call.op = "get_account_info"
    /\ ~WalletStepFails
    /\ call.positions_exchange.kind = "fail"
    /\ outcome.val # None
    /\ Len(outcome.val[1].balances) = 2
    /\ outcome.val[1].positions = <<>>
    /\ wire.sent # None

\* The truthy rule for one optional price: the field "0" gives a price that
\* is present and zero, the field "" or no field gives no price, and any
\* other field that is set gives a price that is present
TruthyRule(order_data, k, parsed) ==
    /\ (Has(order_data, k) /\ order_data[k] = <<"0">>)
           => (parsed # None /\ DecEq(parsed[1], DecimalZero))
    /\ (~Has(order_data, k) \/ order_data[k] = <<>>) <=> parsed = None

\* C12: when an order record parses, its price and average price follow the
\* truthy rule ("0" present and zero; "" or no field absent); parsing the
\* record again gives the same result, and the parser of the Order Manager
\* and the parser of the Portfolio Manager give the same result.
C12_TruthyPricesSameInBothParsers ==
    call.op = "_parse_order"
    => /\ ~IsRaise(outcome) =>
              /\ TruthyRule(call.order_data, "price", outcome.val.price)
              /\ TruthyRule(call.order_data, "avgPrice", outcome.val.average_price)
       /\ outcome = IF call.manager = "order_manager"
                    THEN OM_parse_order(call.order_data)
                    ELSE PM_parse_order(call.order_data)
       /\ OM_parse_order(call.order_data) = PM_parse_order(call.order_data)

C12_Witness ==
    /\ call.op = "_parse_order"
    /\ call.manager = "order_manager"
    /\ Has(call.order_data, "price") /\ call.order_data.price = <<"0">>
    /\ Has(call.order_data, "avgPrice") /\ call.order_data.avgPrice = <<>>
    /\ ~IsRaise(outcome)
    /\ outcome.val.price = Some(DecimalZero)
    /\ outcome.val.average_price = None

-----------------------------------------------------------------------------
(* orderbook_stream.py                                                     *)

NumStreams == 4

Streams == 1 .. NumStreams

\* The symbols of the four streams main() creates
StreamSymbol == <<"BTCUSDT", "ETHUSDT", "SOLUSDT", "XRPUSDT">>

\* __init__: the four tracked scalars, each absent until first seen
NoBest ==
    [bid_price |-> None, bid_size |-> None, ask_price |-> None, ask_size |-> None]

\* json.loads(message): a frame either is a JSON object or is not JSON
JsonLoads(message) ==
    IF message.json = None THEN Raised("JSONDecodeError")
    ELSE Returned(message.json[1])

Tickers == <<"t", "i", "c", "k", "e", "r", "s">>

\* str.startswith on a string given by its characters
StartsWith(str, prefix) ==
    Len(str) >= Len(prefix) /\ SubSeq(str, 1, Len(prefix)) = prefix

\* ticker_data.get(a) and ticker_data.get(b): both present and not empty
BothTruthy(ticker_data, a, b) ==
    /\ Has(ticker_data, a) /\ ticker_data[a] # <<>>
    /\ Has(ticker_data, b) /\ ticker_data[b] # <<>>

\* SetPair, except that a side the tick does not carry is forgotten
SetPair_ClearsAbsent(r, ticker_data, price_key, size_key, price_field, size_field) ==
    IF r.exc # None THEN r
    ELSE IF ~BothTruthy(ticker_data, price_key, size_key)
    THEN [best |-> [r.best EXCEPT ![price_field] = None, ![size_field] = None],
          exc  |-> None]
    ELSE IF IsRaise(Decimal(ticker_data[price_key]))
    THEN [best |-> r.best, exc |-> Decimal(ticker_data[price_key]).exc]
    ELSE IF IsRaise(Decimal(ticker_data[size_key]))
    THEN [best |-> [r.best EXCEPT
                       ![price_field] = Some(Decimal(ticker_data[price_key]).val)],
          exc  |-> Decimal(ticker_data[size_key]).exc]
    ELSE [best |-> [r.best EXCEPT
                       ![price_field] = Some(Decimal(ticker_data[price_key]).val),
                       ![size_field] = Some(Decimal(ticker_data[size_key]).val)],
          exc  |-> None]

\* The two assignments of one side (lines 68-70, 72-74), made only when the
\* tick carries both fields: a raise in the first Decimal leaves both scalars
\* as they were, a raise in the second leaves the price already overwritten.
SetPair(r, ticker_data, price_key, size_key, price_field, size_field) ==
    IF r.exc # None \/ ~BothTruthy(ticker_data, price_key, size_key) THEN r
    ELSE IF IsRaise(Decimal(ticker_data[price_key]))
    THEN [best |-> r.best, exc |-> Decimal(ticker_data[price_key]).exc]
    ELSE IF IsRaise(Decimal(ticker_data[size_key]))
    THEN [best |-> [r.best EXCEPT
                       ![price_field] = Some(Decimal(ticker_data[price_key]).val)],
          exc  |-> Decimal(ticker_data[size_key]).exc]
    ELSE [best |-> [r.best EXCEPT
                       ![price_field] = Some(Decimal(ticker_data[price_key]).val),
                       ![size_field] = Some(Decimal(ticker_data[size_key]).val)],
          exc  |-> None]

\* The bid pair, then the ask pair
UpdateBest(b, ticker_data) ==
    SetPair(SetPair([best |-> b, exc |-> None], ticker_data,
                    "bid1Price", "bid1Size", "bid_price", "bid_size"),
            ticker_data, "ask1Price", "ask1Size", "ask_price", "ask_size")

\* bids / asks: one level when both scalars of the side are known
Levels(price, size) ==
    IF price # None /\ size # None
    THEN <<[price |-> price[1], size |-> size[1]]>> ELSE <<>>

\* The OrderBook built from the tracked scalars (lines 77-91)
Snapshot(self, b, ticker_data, timestamp) ==
    [symbol    |-> Get(ticker_data, "symbol", self.symbol),
     bids      |-> Levels(b.bid_price, b.bid_size),
     asks      |-> Levels(b.ask_price, b.ask_size),
     timestamp |-> timestamp]

Untouched(self, exc) ==
    [best |-> self.best, orderbook |-> self.orderbook, built |-> None,
     delivered |-> FALSE, exc |-> exc]

\* self.orderbook = ...; if self.callback: self.callback(self.orderbook).
\* The observer "raising" raises; any other returns.
Deliver(self, b, book) ==
    [best |-> b, orderbook |-> Some(book), built |-> Some(book),
     delivered |-> self.callback # None,
     exc |-> IF self.callback = Some("raising") THEN Some("CallbackError")
             ELSE None]

AfterUpdate(self, u, data) ==
    IF u.exc # None
    THEN [best |-> u.best, orderbook |-> self.orderbook, built |-> None,
          delivered |-> FALSE, exc |-> u.exc]
    ELSE Deliver(self, u.best,
                 Snapshot(self, u.best, data.data, Get(data, "ts", 0)))

\* _process_message without the test of the payload
ProcessMessage_AnyPayload(self, data) ==
    IF StartsWith(Get(data, "topic", <<>>), Tickers)
    THEN AfterUpdate(self, UpdateBest(self.best, data.data), data)
    ELSE Untouched(self, None)

\* _process_message: what it leaves in the instance, the snapshot it built,
\* whether the callback was called, and the exception it ended with
ProcessMessage(self, data) ==
    IF /\ StartsWith(Get(data, "topic", <<>>), Tickers)
       /\ Get(data, "data", EmptyDict) # EmptyDict
    THEN AfterUpdate(self, UpdateBest(self.best, data.data), data)
    ELSE Untouched(self, None)

\* One turn of the loop of listen on the frame read: json.loads, then
\* _process_message
HandleFrame(self, message) ==
    IF IsRaise(JsonLoads(message)) THEN Untouched(self, JsonLoads(message).exc)
    ELSE ProcessMessage(self, JsonLoads(message).val)

\* NextFrame, except that the newest frame is yielded
NextFrame_Newest(frames) == frames[Len(frames)]

\* The frame "async for" yields: the oldest one not read yet
NextFrame(frames) == Head(frames)

\* LoopExit, except that only ConnectionClosed is caught
LoopExit_OnlyClosedCaught(exc) ==
    IF exc = "ConnectionClosed" THEN "returned" ELSE "raised"

\* How listen ends when the loop raises exc: ConnectionClosed is logged as a
\* warning, any other Exception as an error, and listen returns
LoopExit(exc) == "returned"

\* get_latest_orderbook()
get_latest_orderbook(self) == self.orderbook

Self(s) ==
    [symbol |-> StreamSymbol[s], best |-> best[s], orderbook |-> orderbook[s],
     callback |-> callback[s]]

Event(kind, s, n, res, message) ==
    [kind |-> kind, call |-> listenCalls[s], n |-> n, msg |-> message,
     book |-> res.built, cb |-> res.delivered, exc |-> res.exc]

NoResult == [built |-> None, delivered |-> FALSE, exc |-> None]

Failed(exc) == [built |-> None, delivered |-> FALSE, exc |-> Some(exc)]

NoMessage == [n |-> 0, json |-> None]

Log(s, kind, res) ==
    events' = [events EXCEPT ![s] = Append(@, Event(kind, s, 0, res, NoMessage))]

-----------------------------------------------------------------------------
(* The frames the exchange sends                                           *)

TickerTopic == Tickers \o <<".", "B", "T", "C">>

Tick(ts, ticker_data) ==
    Some([topic |-> TickerTopic, ts |-> ts, data |-> ticker_data])

BidOnly == Tick(1, [symbol |-> "BTCUSDT", bid1Price |-> <<"1", "0", "0">>,
                    bid1Size |-> <<"2">>])

AskOnly == Tick(2, [symbol |-> "BTCUSDT", ask1Price |-> <<"1", "0", "1">>,
                    ask1Size |-> <<"0", ".", "5">>])

NeitherPair == Tick(3, [symbol |-> "BTCUSDT"])

EmptyPayload == Tick(4, EmptyDict)

BadBid == Tick(5, [bid1Price |-> <<"x">>, bid1Size |-> <<"1">>])

SubscribeAck == Some([success |-> TRUE, op |-> "subscribe"])

NotJson == None

\* What may arrive on the connection of one instance driven by a caller
Frames == {BidOnly, AskOnly, NeitherPair, EmptyPayload, BadBid, SubscribeAck,
           NotJson}

\* What may arrive on the connections of the four instances of main()
MainFrames == {BidOnly, NotJson}

MaxFrames == 3

MaxListenCalls == 2

MainMaxFrames == 1

-----------------------------------------------------------------------------
(* The steps of one Order-Book Stream instance.  A coroutine runs from one *)
(* await to the next without interruption, so each step below is one such  *)
(* stretch of connect, listen or disconnect.                               *)

\* The event loop runs the listen coroutines while their caller, or main(),
\* is still running
Running == mainPc \in {"caller", "gather", "finally", "finally_raising"}

FreshStreams(main) ==
    /\ websocket = [s \in Streams |-> None]
    /\ orderbook = [s \in Streams |-> None]
    /\ callback = [s \in Streams |-> None]
    /\ best = [s \in Streams |-> NoBest]
    /\ conn = [s \in Streams |-> "absent"]
    /\ inbox = [s \in Streams |-> <<>>]
    /\ arrived = [s \in Streams |-> 0]
    /\ listenPc = [s \in Streams |-> "idle"]
    /\ listenCalls = [s \in Streams |-> 0]
    /\ discPc = [s \in Streams |-> "idle"]
    /\ events = [s \in Streams |-> <<>>]
    /\ mainPc = main
    /\ call = [op |-> "none"]
    /\ exchange = TransportFailure
    /\ wire = NoWire
    /\ outcome = Returned(None)

\* set_callback(callback)
SetCallback(s) ==
    /\ mainPc = "caller"
    /\ listenCalls[s] = 0
    /\ \E cb \in {"recording", "raising"} :
           /\ callback[s] # Some(cb)
           /\ callback' = [callback EXCEPT ![s] = Some(cb)]
    /\ UNCHANGED <<restVars, websocket, orderbook, best, conn, inbox, arrived,
                   listenPc, listenCalls, discPc, events, mainPc>>

\* A caller calls listen(): it connects first when there is no handle
ListenCall(s) ==
    /\ mainPc = "caller"
    /\ listenPc[s] \in {"idle", "returned", "raised"}
    /\ listenCalls[s] < MaxListenCalls
    /\ listenCalls' = [listenCalls EXCEPT ![s] = @ + 1]
    /\ listenPc' = [listenPc EXCEPT
                       ![s] = IF websocket[s] = None THEN "connecting"
                              ELSE "receiving"]
    /\ events' = [events EXCEPT
                     ![s] = Append(@, [Event("listen", s, 0, NoResult, NoMessage)
                                          EXCEPT !.call = listenCalls[s] + 1])]
    /\ UNCHANGED <<restVars, websocket, orderbook, callback, best, conn, inbox,
                   arrived, discPc, mainPc>>

\* connect: websockets.connect(...) succeeded, the handle is stored
ConnectOk(s) ==
    /\ Running
    /\ listenPc[s] = "connecting"
    /\ websocket' = [websocket EXCEPT ![s] = Some("ws")]
    /\ conn' = [conn EXCEPT ![s] = "open"]
    /\ listenPc' = [listenPc EXCEPT ![s] = "subscribing"]
    /\ UNCHANGED <<restVars, orderbook, callback, best, inbox, arrived,
                   listenCalls, discPc, events, mainPc>>

\* connect: websockets.connect(...) raised; logged and re-raised through listen
ConnectFail(s) ==
    /\ Running
    /\ listenPc[s] = "connecting"
    /\ listenPc' = [listenPc EXCEPT ![s] = "raised"]
    /\ Log(s, "connect_failed", Failed("OSError"))
    /\ UNCHANGED <<restVars, websocket, orderbook, callback, best, conn, inbox,
                   arrived, listenCalls, discPc, mainPc>>

\* connect: the subscribe frame was sent; listen enters its loop
SubscribeOk(s) ==
    /\ Running
    /\ listenPc[s] = "subscribing"
    /\ conn[s] = "open"
    /\ listenPc' = [listenPc EXCEPT ![s] = "receiving"]
    /\ Log(s, "subscribed", NoResult)
    /\ UNCHANGED <<restVars, websocket, orderbook, callback, best, conn, inbox,
                   arrived, listenCalls, discPc, mainPc>>

\* SubscribeFail, except that the handle is dropped when the send fails
SubscribeFail_ClearsHandle(s) ==
    /\ Running
    /\ listenPc[s] = "subscribing"
    /\ websocket' = [websocket EXCEPT ![s] = None]
    /\ conn' = [conn EXCEPT ![s] = "closed"]
    /\ listenPc' = [listenPc EXCEPT ![s] = "raised"]
    /\ Log(s, "subscribe_failed", Failed("ConnectionClosed"))
    /\ UNCHANGED <<restVars, orderbook, callback, best, inbox, arrived,
                   listenCalls, discPc, mainPc>>

\* connect: sending the subscribe frame raised (the connection is gone);
\* logged and re-raised through listen, the handle stays set
SubscribeFail(s) ==
    /\ Running
    /\ listenPc[s] = "subscribing"
    /\ conn' = [conn EXCEPT ![s] = "closed"]
    /\ listenPc' = [listenPc EXCEPT ![s] = "raised"]
    /\ Log(s, "subscribe_failed", Failed("ConnectionClosed"))
    /\ UNCHANGED <<restVars, websocket, orderbook, callback, best, inbox,
                   arrived, listenCalls, discPc, mainPc>>

\* What one turn of the loop leaves behind
Handled(s, message, res) ==
    /\ best' = [best EXCEPT ![s] = res.best]
    /\ orderbook' = [orderbook EXCEPT ![s] = res.orderbook]
    /\ events' = [events EXCEPT
                     ![s] = Append(@, Event("tick", s, message.n, res, message))]
    /\ listenPc' = [listenPc EXCEPT
                       ![s] = IF res.exc = None THEN "receiving"
                              ELSE LoopExit(res.exc[1])]

\* listen: the next frame is read, parsed and handled, callback included
Receive(s) ==
    /\ Running
    /\ listenPc[s] = "receiving"
    /\ inbox[s] # <<>>
    /\ Handled(s, NextFrame(inbox[s]), HandleFrame(Self(s), NextFrame(inbox[s])))
    /\ inbox' = [inbox EXCEPT ![s] = Tail(@)]
    /\ UNCHANGED <<restVars, websocket, callback, conn, arrived, listenCalls,
                   discPc, mainPc>>

\* listen: the connection is closed and every frame was read; the loop ends
ReceiveClosed(s) ==
    /\ Running
    /\ listenPc[s] = "receiving"
    /\ inbox[s] = <<>>
    /\ conn[s] = "closed"
    /\ listenPc' = [listenPc EXCEPT ![s] = LoopExit("ConnectionClosed")]
    /\ Log(s, "closed", Failed("ConnectionClosed"))
    /\ UNCHANGED <<restVars, websocket, orderbook, callback, best, conn, inbox,
                   arrived, listenCalls, discPc, mainPc>>

\* The exchange closes the connection
PeerClose(s) ==
    /\ conn[s] = "open"
    /\ listenPc[s] = "receiving"
    /\ conn' = [conn EXCEPT ![s] = "closed"]
    /\ UNCHANGED <<restVars, websocket, orderbook, callback, best, inbox,
                   arrived, listenPc, listenCalls, discPc, events, mainPc>>

\* disconnect: close the connection when there is a handle, else nothing
Closed(s) ==
    conn' = [conn EXCEPT
                ![s] = IF websocket[s] # None /\ @ = "open" THEN "closed" ELSE @]

\* disconnect(), called by a caller or by the finally clause of main()
Disconnect(s) ==
    /\ \/ mainPc = "caller" /\ listenCalls[s] > 0
       \/ mainPc \in {"finally", "finally_raising"}
    /\ discPc[s] = "idle"
    /\ Closed(s)
    /\ discPc' = [discPc EXCEPT ![s] = "done"]
    /\ UNCHANGED <<restVars, websocket, orderbook, callback, best, inbox,
                   arrived, listenPc, listenCalls, events, mainPc>>

\* A frame arrives on the open connection of an instance driven by a caller
Arrive(s) ==
    /\ mainPc = "caller"
    /\ conn[s] = "open"
    /\ listenPc[s] = "receiving"
    /\ arrived[s] < MaxFrames
    /\ \E f \in Frames :
           inbox' = [inbox EXCEPT
                        ![s] = Append(@, [n |-> arrived[s] + 1, json |-> f])]
    /\ arrived' = [arrived EXCEPT ![s] = @ + 1]
    /\ UNCHANGED <<restVars, websocket, orderbook, callback, best, conn,
                   listenPc, listenCalls, discPc, events, mainPc>>

StreamInit == FreshStreams("caller")

\* One instance, driven by a caller
StreamNext ==
    \/ SetCallback(1)
    \/ ListenCall(1)
    \/ ConnectOk(1)
    \/ ConnectFail(1)
    \/ SubscribeOk(1)
    \/ SubscribeFail(1)
    \/ Receive(1)
    \/ ReceiveClosed(1)
    \/ PeerClose(1)
    \/ Disconnect(1)
    \/ Arrive(1)

StreamSpec == StreamInit /\ [][StreamNext]_vars

-----------------------------------------------------------------------------
(* main(): four instances, listen on all of them gathered, then disconnect *)
(* on all of them gathered in the finally clause                           *)

\* The callback is set on every instance and gather starts the four listen
\* coroutines; each finds no handle and starts to connect
MainStart ==
    /\ mainPc = "start"
    /\ callback' = [s \in Streams |-> Some("on_orderbook_update")]
    /\ listenCalls' = [s \in Streams |-> 1]
    /\ listenPc' = [s \in Streams |-> "connecting"]
    /\ events' = [s \in Streams |->
                     <<[Event("listen", s, 0, NoResult, NoMessage)
                           EXCEPT !.call = 1]>>]
    /\ mainPc' = "gather"
    /\ UNCHANGED <<restVars, websocket, orderbook, best, conn, inbox, arrived,
                   discPc>>

\* gather without return_exceptions: the first exception of a listen is
\* raised in main at once, the other listen coroutines keep running; no
\* except clause of main matches and the finally clause starts
MainListenRaised ==
    /\ mainPc = "gather"
    /\ \E s \in Streams : listenPc[s] = "raised"
    /\ mainPc' = "finally_raising"
    /\ UNCHANGED <<restVars, websocket, orderbook, callback, best, conn, inbox,
                   arrived, listenPc, listenCalls, discPc, events>>

\* Every listen returned: gather returns and the finally clause starts
MainAllReturned ==
    /\ mainPc = "gather"
    /\ \A s \in Streams : listenPc[s] = "returned"
    /\ mainPc' = "finally"
    /\ UNCHANGED <<restVars, websocket, orderbook, callback, best, conn, inbox,
                   arrived, listenPc, listenCalls, discPc, events>>

\* Every disconnect returned: main ends, re-raising a pending exception
MainDone ==
    /\ mainPc \in {"finally", "finally_raising"}
    /\ \A s \in Streams : discPc[s] = "done"
    /\ mainPc' = IF mainPc = "finally" THEN "done" ELSE "done_raised"
    /\ UNCHANGED <<restVars, websocket, orderbook, callback, best, conn, inbox,
                   arrived, listenPc, listenCalls, discPc, events>>

RECURSIVE Sum(_, _)
Sum(f, n) == IF n = 0 THEN 0 ELSE f[n] + Sum(f, n - 1)

\* A frame arrives on the open connection of one of the four instances; n is
\* its position among all the frames that arrived
MainArrive(s) ==
    /\ mainPc \in {"gather", "finally", "finally_raising"}
    /\ conn[s] = "open"
    /\ listenPc[s] = "receiving"
    /\ Sum(arrived, NumStreams) < MainMaxFrames
    /\ \E f \in MainFrames :
           inbox' = [inbox EXCEPT
                        ![s] = Append(@, [n |-> Sum(arrived, NumStreams) + 1,
                                          json |-> f])]
    /\ arrived' = [arrived EXCEPT ![s] = @ + 1]
    /\ UNCHANGED <<restVars, websocket, orderbook, callback, best, conn,
                   listenPc, listenCalls, discPc, events, mainPc>>

MainInit == FreshStreams("start")

MainNext ==
    \/ MainStart
    \/ MainListenRaised
    \/ MainAllReturned
    \/ MainDone
    \/ \E s \in Streams :
           \/ ConnectOk(s)
           \/ ConnectFail(s)
           \/ SubscribeOk(s)
           \/ SubscribeFail(s)
           \/ MainArrive(s)
           \/ Receive(s)
           \/ ReceiveClosed(s)
           \/ PeerClose(s)
           \/ Disconnect(s)

MainSpec == MainInit /\ [][MainNext]_vars

-----------------------------------------------------------------------------
(* Claims about the Order-Book Stream                                      *)

\* The frames instance s handled, in the order it handled them
TickEvents(s) == SelectSeq(events[s], LAMBDA e : e.kind = "tick")

\* The first three frames instance 1 handled: bid pair only, ask pair only,
\* neither pair
ThreeTicks ==
    /\ Len(TickEvents(1)) >= 3
    /\ TickEvents(1)[1].msg.json = BidOnly
    /\ TickEvents(1)[2].msg.json = AskOnly
    /\ TickEvents(1)[3].msg.json = NeitherPair

BookOf(s, i) == TickEvents(s)[i].book[1]

NeverCleared(s) ==
    \A i, j \in DOMAIN TickEvents(s) :
        (i < j /\ TickEvents(s)[i].book # None /\ TickEvents(s)[j].book # None)
            => /\ Len(BookOf(s, i).bids) <= Len(BookOf(s, j).bids)
               /\ Len(BookOf(s, i).asks) <= Len(BookOf(s, j).asks)

\* C5 as stated: after a bid-only, an ask-only and a neither-pair tick,
\* snapshot 1 has one bid level and no ask level, snapshot 2 the same bid
\* level and one ask level, and snapshot 3 is identical to snapshot 2; no
\* later snapshot has fewer levels on a side than an earlier one.
C5_ThirdSnapshotIdentical ==
    /\ ThreeTicks =>
           /\ Len(BookOf(1, 1).bids) = 1 /\ BookOf(1, 1).asks = <<>>
           /\ BookOf(1, 2).bids = BookOf(1, 1).bids
           /\ Len(BookOf(1, 2).asks) = 1
           /\ BookOf(1, 3) = BookOf(1, 2)
    /\ NeverCleared(1)

\* C5 amended: after a bid-only, an ask-only and a neither-pair tick,
\* snapshot 1 has one bid level and no ask level, snapshot 2 the same bid
\* level and one ask level, and snapshot 3 has the bid and ask levels of
\* snapshot 2 with the timestamp of tick 3; no later snapshot has fewer
\* levels on a side than an earlier one.
C5_ThirdSnapshotSameLevels ==
    /\ ThreeTicks =>
           /\ Len(BookOf(1, 1).bids) = 1 /\ BookOf(1, 1).asks = <<>>
           /\ BookOf(1, 2).bids = BookOf(1, 1).bids
           /\ Len(BookOf(1, 2).asks) = 1
           /\ BookOf(1, 3).bids = BookOf(1, 2).bids
           /\ BookOf(1, 3).asks = BookOf(1, 2).asks
           /\ BookOf(1, 3).timestamp = NeitherPair[1].ts
           /\ BookOf(1, 2).timestamp = AskOnly[1].ts
    /\ NeverCleared(1)

C5_Witness ==
    /\ ThreeTicks
    /\ TickEvents(1)[3].book # None
    /\ orderbook[1] = TickEvents(1)[3].book

\* C6 as stated: when main() has ended, after listen ran on the four
\* instances and disconnect was called on all four, no instance has an open
\* connection.
C6_NoConnectionLeftOpen ==
    mainPc \in {"done", "done_raised"} => \A s \in Streams : conn[s] # "open"

\* C7: instance 1 handles frames in the order they arrived, one at a time:
\* the i-th frame handled is the i-th that arrived, every frame read has been
\* handled, callback included, before the next is read, the frames not yet
\* read wait in arrival order, and each snapshot handed to the callback is
\* the one built from the frame just read.
C7_HandledInArrivalOrder ==
    /\ \A i \in DOMAIN TickEvents(1) :
           /\ TickEvents(1)[i].n = i
           /\ TickEvents(1)[i].cb =>
                  /\ TickEvents(1)[i].book # None
                  /\ BookOf(1, i).timestamp = TickEvents(1)[i].msg.json[1].ts
    /\ arrived[1] - Len(inbox[1]) = Len(TickEvents(1))
    /\ \A k \in DOMAIN inbox[1] : inbox[1][k].n = Len(TickEvents(1)) + k

C7_Witness ==
    /\ Len(TickEvents(1)) = 2
    /\ TickEvents(1)[1].cb /\ TickEvents(1)[2].cb
    /\ TickEvents(1)[1].msg.json # TickEvents(1)[2].msg.json
    /\ Len(inbox[1]) = 1

\* The loop of a listen call ended with this event
LoopEnded(e) == e.kind \in {"tick", "closed"} /\ e.exc # None

\* C8: listen raises only when its connect failed (the connection attempt or
\* the subscribe frame); once the loop is entered it returns normally
\* whatever ends the loop, and handles no frame after the one that raised.
C8_ListenRaisesOnlyWhenConnectFails ==
    /\ listenPc[1] = "raised" =>
           /\ events[1] # <<>>
           /\ events[1][Len(events[1])].kind \in {"connect_failed", "subscribe_failed"}
           /\ events[1][Len(events[1])].call = listenCalls[1]
    /\ \A i \in DOMAIN events[1] :
           LoopEnded(events[1][i]) =>
               /\ events[1][i].call = listenCalls[1] => listenPc[1] = "returned"
               /\ \A j \in DOMAIN events[1] :
                      j > i => events[1][j].call > events[1][i].call
    /\ \A i \in DOMAIN events[1] :
           (events[1][i].kind = "subscribed" /\ events[1][i].call = listenCalls[1])
               => listenPc[1] \in {"receiving", "returned"}

C8_Witness ==
    /\ listenCalls[1] = 2
    /\ listenPc[1] = "returned"
    /\ \E i \in DOMAIN events[1] : events[1][i].kind = "connect_failed"
    /\ events[1][Len(events[1])].kind = "tick"
    /\ events[1][Len(events[1])].exc \in
           {Some("JSONDecodeError"), Some("InvalidOperation"), Some("CallbackError")}

\* The frame is a JSON object whose topic starts with "tickers"
TickerTopicOf(message) ==
    /\ message.json # None
    /\ StartsWith(Get(message.json[1], "topic", <<>>), Tickers)

\* A pair the payload carries parses: both of its fields are decimals
PairParses(ticker_data, price_key, size_key) ==
    BothTruthy(ticker_data, price_key, size_key)
        => /\ ~IsRaise(Decimal(ticker_data[price_key]))
           /\ ~IsRaise(Decimal(ticker_data[size_key]))

\* The frame is a ticker message with a payload that is not empty and whose
\* pairs parse
TickerWithPayload(message) ==
    /\ TickerTopicOf(message)
    /\ Get(message.json[1], "data", EmptyDict) # EmptyDict
    /\ PairParses(message.json[1].data, "bid1Price", "bid1Size")
    /\ PairParses(message.json[1].data, "ask1Price", "ask1Size")

\* The snapshots instance s built, in order
BuiltEvents(s) == SelectSeq(events[s], LAMBDA e : e.kind = "tick" /\ e.book # None)

\* get_latest_orderbook gives the snapshot built last, or absent when none
\* was built, and it has at most one level on each side
LatestIsLastBuilt(s) ==
    /\ get_latest_orderbook(Self(s)) =
           IF BuiltEvents(s) = <<>> THEN None
           ELSE BuiltEvents(s)[Len(BuiltEvents(s))].book
    /\ get_latest_orderbook(Self(s)) # None
           => /\ Len(get_latest_orderbook(Self(s))[1].bids) <= 1
              /\ Len(get_latest_orderbook(Self(s))[1].asks) <= 1

\* C13 as stated: a message builds a snapshot, delivered once to the
\* registered callback, if and only if its topic starts with "tickers", an
\* empty data payload included; get_latest_orderbook returns the snapshot of
\* the last such message, or absent, with at most one level on each side.
C13_EveryTickerMessageBuilds ==
    /\ \A i \in DOMAIN TickEvents(1) :
           /\ TickEvents(1)[i].book # None <=> TickerTopicOf(TickEvents(1)[i].msg)
           /\ TickEvents(1)[i].cb
                  <=> (TickEvents(1)[i].book # None /\ callback[1] # None)
    /\ LatestIsLastBuilt(1)

\* Each message builds a snapshot, delivered once to the registered callback,
\* exactly when it is a ticker message with a payload that is not empty and
\* whose pairs parse
BuildsIffTickerWithPayload ==
    /\ \A i \in DOMAIN TickEvents(1) :
           /\ TickEvents(1)[i].book # None <=> TickerWithPayload(TickEvents(1)[i].msg)
           /\ TickEvents(1)[i].cb
                  <=> (TickEvents(1)[i].book # None /\ callback[1] # None)
    /\ LatestIsLastBuilt(1)

\* A turn of the loop on a frame that is no ticker message, or a ticker
\* message with an empty payload, leaves the tracked scalars and the stored
\* snapshot as they were
IgnoredLeavesUnchanged ==
    (/\ inbox[1] # <<>>
     /\ inbox'[1] = Tail(inbox[1])
     /\ \/ ~TickerTopicOf(Head(inbox[1]))
        \/ Get(Head(inbox[1]).json[1], "data", EmptyDict) = EmptyDict)
    => (best'[1] = best[1] /\ orderbook'[1] = orderbook[1])

\* C13 amended: a message builds a snapshot that replaces the stored one and
\* is delivered once to the registered callback if and only if its topic
\* starts with "tickers", its data payload is not empty and the pairs it
\* carries parse; a ticker message with an empty payload, like any message
\* of another topic, leaves the tracked scalars and the stored snapshot
\* unchanged and triggers no callback; get_latest_orderbook returns the
\* snapshot built last, or absent when none was built, with at most one
\* level on each side.
C13_TickerWithPayloadBuilds ==
    []BuildsIffTickerWithPayload /\ [][IgnoredLeavesUnchanged]_vars

C13_Witness ==
    /\ callback[1] = Some("recording")
    /\ Len(TickEvents(1)) = 3
    /\ TickEvents(1)[1].msg.json = BidOnly /\ TickEvents(1)[1].cb
    /\ TickEvents(1)[2].msg.json = EmptyPayload /\ ~TickEvents(1)[2].cb
    /\ TickEvents(1)[3].msg.json = SubscribeAck /\ ~TickEvents(1)[3].cb
    /\ orderbook[1] = TickEvents(1)[1].book

\* The events of a connect: its failure to open, the subscribe frame sent,
\* the failure to send it
ConnectEvents == {"connect_failed", "subscribed", "subscribe_failed"}

\* C14: when opening the connection fails, connect raises and the handle
\* stays absent, and the next listen connects again; when the subscribe frame
\* cannot be sent, connect raises and the handle stays set, and no later
\* listen of the instance connects or sends the subscribe frame.
C14_HandleAfterFailedConnect ==
    \A i \in DOMAIN events[1] :
        /\ events[1][i].kind = "connect_failed" =>
               /\ i = Len(events[1]) => (websocket[1] = None /\ listenPc[1] = "raised")
               /\ i + 1 = Len(events[1]) =>
                      /\ events[1][i + 1].kind = "listen"
                      /\ listenPc[1] \in {"connecting", "subscribing"}
               /\ i + 2 \in DOMAIN events[1] => events[1][i + 2].kind \in ConnectEvents
        /\ events[1][i].kind = "subscribe_failed" =>
               /\ websocket[1] # None
               /\ i = Len(events[1]) => listenPc[1] = "raised"
               /\ i < Len(events[1]) => listenPc[1] \in {"receiving", "returned"}
               /\ \A j \in DOMAIN events[1] :
                      j > i => events[1][j].kind \notin ConnectEvents

C14_Witness ==
    /\ listenCalls[1] = 2
    /\ Len(events[1]) = 4
    /\ events[1][2].kind = "subscribe_failed"
    /\ events[1][3].kind = "listen"
    /\ events[1][4].kind = "closed"
    /\ websocket[1] # None
    /\ listenPc[1] = "returned"

====
